---- MODULE Spec2Model ----
(***************************************************************************)
(* Model of the story-publishing front end:                                *)
(*   - the useStories hook (src/hooks/useStories.ts): fetchStories,         *)
(*     createStory, updateStory, deleteStory against the backend tables;    *)
(*   - the ManageStories view (src/components/writer/manage-stories.tsx):   *)
(*     mount, filtering, delete confirmation, toggleStatus;                 *)
(*   - the LibraryPage statistics (getReadingStats).                        *)
(* Every asynchronous call of the hook is an entry of ops; its pc is the    *)
(* await it is suspended at.  All code between two awaits runs in one       *)
(* action, as on the JavaScript event loop.                                 *)
(***************************************************************************)
EXTENDS Integers, Sequences, FiniteSets, TLC

VARIABLES
  db,               \* backend table "stories": a set of rows
  story_tags,       \* backend table "story_tags": a set of <<story_id, tag>>
  nextId,           \* next id / created_at the backend assigns
  stories,          \* useStories: const [stories, setStories]
  loading,          \* useStories: const [loading, setLoading]
  error,            \* useStories: const [error, setError]
  ops,              \* the asynchronous calls of the hook in flight
  settledOps,       \* history: the calls that have settled
  calls,            \* history: number of calls of the hook started
  deleteCalls,      \* history: number of deleteStory invocations
  mounted,          \* ManageStories has run its mount effects
  mountError,       \* the mount effect raised (call of a missing function)
  user,             \* useUser().user?.id
  searchQuery,      \* ManageStories: const [searchQuery, setSearchQuery]
  filterStatus,     \* ManageStories: const [filterStatus, setFilterStatus]
  deleteDialogOpen, \* ManageStories: const [deleteDialogOpen, ...]
  storyToDelete,    \* ManageStories: const [storyToDelete, ...]
  toast,            \* the last notification shown
  confirms,         \* history: number of confirmDelete invocations
  lastClicked,      \* history: id given to the latest handleDeleteClick
  library,          \* LibraryPage: useLibrary().library
  reads,            \* LibraryPage: useReads().reads
  sortBy,           \* LibraryPage: const [sortBy, setSortBy]
  searchTerm,       \* LibraryPage: const [searchTerm, setSearchTerm]
  stats,            \* LibraryPage: const stats = getReadingStats()
  showSignupPrompt, \* LibraryPage: const [showSignupPrompt, ...]
  libLoading,       \* LibraryPage: useLibrary().loading
  navigated,        \* LibraryPage: the page last given to onNavigate
  href,             \* LibraryPage: window.location.href
  visible           \* ManageStories: the rendered filteredStories

vars == <<db, story_tags, nextId, stories, loading, error, ops, settledOps,
          calls, deleteCalls, mounted,
          mountError, user, searchQuery, filterStatus, deleteDialogOpen,
          storyToDelete, toast, confirms, lastClicked, library, reads,
          sortBy, searchTerm, stats, showSignupPrompt, libLoading,
          navigated, href, visible>>

hookVars == <<stories, loading, error>>
opVars == <<ops, settledOps, calls, deleteCalls>>
backendVars == <<db, story_tags, nextId>>
dialogVars == <<deleteDialogOpen, storyToDelete, confirms, lastClicked>>
historyVars == <<confirms, lastClicked, calls, deleteCalls>>
filterVars == <<searchQuery, filterStatus, visible>>
promptVars == <<showSignupPrompt, libLoading, navigated, href>>
libraryVars == <<library, reads, sortBy, searchTerm, stats, promptVars>>

----------------------------------------------------------------------------
(* Bounds *)

MaxOps == 3        \* asynchronous hook calls started in one behaviour
MaxInFlight == 2   \* asynchronous hook calls in flight at the same time
MaxQueryLen == 2   \* length of a search string
MaxListLen == 2    \* length of the collections of the pure-function checks

----------------------------------------------------------------------------
(* Values *)

Null == "null"
NoUser == "nouser"     \* user is null: user?.id is undefined
NoId == 0              \* storyToDelete is null
NoProgress == -1       \* a read whose progress is missing
NullProfile == [user_id |-> Null, display_name |-> Null, username |-> Null]

Statuses == {"draft", "published", "archived"}
Users == {"u1", "u2"}

\* rows of table "profiles"; u2 has no profile row
ProfilesTable == {[user_id |-> "u1", display_name |-> "Ann", username |-> "ann"]}

\* outcome of one backend call: success, an error that is an instance of
\* Error (carries .message), or a plain error object
Outcomes == {"ok", "Error", "object"}
BackendMessage == "backend message"

\* err instanceof Error ? err.message : generic
ErrorString(outcome, generic) ==
  IF outcome = "Error" THEN BackendMessage ELSE generic

----------------------------------------------------------------------------
(* Pure helpers on sequences *)

SeqToSet(s) == {s[i] : i \in DOMAIN s}

----------------------------------------------------------------------------
(* Backend reads *)

\* .order('created_at', { ascending: false })
RECURSIVE OrderByCreatedDesc(_)
OrderByCreatedDesc(S) ==
  IF S = {} THEN <<>>
  ELSE LET m == CHOOSE s \in S : \A t \in S : t.created_at <= s.created_at
       IN  <<m>> \o OrderByCreatedDesc(S \ {m})

\* .from('stories').select('*').eq('status', 'published').order(...)
SelectStories(table) ==
  OrderByCreatedDesc({s \in table : s.status = "published"})

\* .from('profiles').select(...).in('user_id', authorIds)
SelectProfiles(authorIds) ==
  {p \in ProfilesTable : p.user_id \in authorIds}

\* profilesData?.find(p => p.user_id === story.author_id) ... profile || null
ProfileOf(profilesData, story) ==
  IF \E p \in profilesData : p.user_id = story.author_id
  THEN CHOOSE p \in profilesData : p.user_id = story.author_id
  ELSE NullProfile

\* storiesData?.map(story => ({...story, profiles: profile || null}))
MergeProfiles(storiesData, profilesData) ==
  [i \in DOMAIN storiesData |->
     [id |-> storiesData[i].id,
      title |-> storiesData[i].title,
      description |-> storiesData[i].description,
      genre |-> storiesData[i].genre,
      cover_image_url |-> storiesData[i].cover_image_url,
      author_id |-> storiesData[i].author_id,
      status |-> storiesData[i].status,
      created_at |-> storiesData[i].created_at,
      profiles |-> ProfileOf(profilesData, storiesData[i])]]

----------------------------------------------------------------------------
(* Backend writes *)

NoInput ==
  [title |-> <<>>, description |-> Null, genre |-> Null,
   author_id |-> Null, cover_image_url |-> Null, tags |-> <<>>]

\* argument of createStory
Inputs ==
  { [title |-> <<"a">>, description |-> "d1", genre |-> "g1",
     author_id |-> "u1", cover_image_url |-> "c1", tags |-> <<>>],
    [title |-> <<"B">>, description |-> "d2", genre |-> "g2",
     author_id |-> "u2", cover_image_url |-> Null, tags |-> <<"t">>] }

\* .from('stories').insert({..., status: 'draft'}).select().single()
InsertedRow(storyData, newId) ==
  [id |-> newId,
   title |-> storyData.title,
   description |-> storyData.description,
   genre |-> storyData.genre,
   cover_image_url |-> storyData.cover_image_url,
   author_id |-> storyData.author_id,
   status |-> "draft",
   created_at |-> newId]

\* .from('stories').update(updates).eq('id', id), updates = {status}
UpdateRows(table, id, newStatus) ==
  { IF s.id = id THEN [s EXCEPT !.status = newStatus] ELSE s : s \in table }

\* .from('stories').delete().eq('id', id)
DeleteRows(table, id) ==
  {s \in table : s.id # id}

\* storyData.tags.map(tag => ({story_id: story.id, tag: tag}))
TagInserts(storyId, tags) ==
  {<<storyId, tags[i]>> : i \in DOMAIN tags}

----------------------------------------------------------------------------
(* ManageStories: derived data *)

\* String.prototype.toLowerCase on the letters used here
LowerChar(c) ==
  CASE c = "A" -> "a"
    [] c = "B" -> "b"
    [] OTHER -> c

ToLowerCase(str) == [i \in DOMAIN str |-> LowerChar(str[i])]

\* String.prototype.includes
Includes(str, sub) ==
  \E i \in 0..(Len(str) - Len(sub)) : SubSeq(str, i + 1, i + Len(sub)) = sub

\* stories.filter(story => story.author_id === user?.id)
UserStories(coll, u) ==
  LET isMine(story) == story.author_id = u
  IN  SelectSeq(coll, isMine)

\* variant of matchesSearch: the comparison keeps the case
MatchesSearchCaseSensitive(story, q) == Includes(story.title, q)

\* story.title.toLowerCase().includes(searchQuery.toLowerCase())
MatchesSearch(story, q) == Includes(ToLowerCase(story.title), ToLowerCase(q))

\* filterStatus === "all" || story.status === filterStatus
MatchesFilter(story, f) == f = "all" \/ story.status = f

\* userStories.filter(story => matchesSearch && matchesFilter)
FilteredStories(coll, u, q, f) ==
  LET keep(story) == MatchesSearch(story, q) /\ MatchesFilter(story, f)
  IN  SelectSeq(UserStories(coll, u), keep)

\* toggleStatus: currentStatus === 'published' ? 'draft' : 'published'
NewStatus(currentStatus) ==
  IF currentStatus = "published" THEN "draft" ELSE "published"

\* the object returned by useStories has no fetchUserStories member
FetchUserStoriesDefined == FALSE

----------------------------------------------------------------------------
(* LibraryPage: derived data *)

\* r.progress || 0
ProgressOrZero(r) == IF r.progress = NoProgress THEN 0 ELSE r.progress

\* reads.filter(pred).length
RECURSIVE CountReading(_)
CountReading(rs) ==
  IF rs = <<>> THEN 0
  ELSE (IF ProgressOrZero(Head(rs)) > 0 /\ ProgressOrZero(Head(rs)) < 100
        THEN 1 ELSE 0) + CountReading(Tail(rs))

RECURSIVE CountCompleted(_)
CountCompleted(rs) ==
  IF rs = <<>> THEN 0
  ELSE (IF ProgressOrZero(Head(rs)) >= 100 THEN 1 ELSE 0)
       + CountCompleted(Tail(rs))

\* reads.reduce((sum, r) => sum + (r.progress || 0), 0)
RECURSIVE SumProgress(_, _)
SumProgress(rs, sum) ==
  IF rs = <<>> THEN sum
  ELSE SumProgress(Tail(rs), sum + ProgressOrZero(Head(rs)))

\* variant of getReadingStats: totalSaved counts the items the search shows
getReadingStatsFiltered(lib, rs) ==
  LET shown(item) == Includes(ToLowerCase(item.title), ToLowerCase(searchTerm))
  IN  [totalSaved |-> Len(SelectSeq(lib, shown)),
       currentlyReading |-> CountReading(rs),
       completed |-> CountCompleted(rs),
       totalSlides |-> SumProgress(rs, 0)]

getReadingStats(lib, rs) ==
  [totalSaved |-> Len(lib),
   currentlyReading |-> CountReading(rs),
   completed |-> CountCompleted(rs),
   totalSlides |-> SumProgress(rs, 0)]

----------------------------------------------------------------------------
(* The asynchronous calls of the hook *)

\* one call of fetchStories / createStory / updateStory / deleteStory.
\*   pc       "write"    the write on table stories is in flight
\*            "tags"     the insert on story_tags is in flight
\*            "read"     the stories read is in flight
\*            "profiles" the profiles read is in flight; data holds the rows
\*                       the stories read returned
\*            "resolved" / "rejected"  the promise settled
\*   writes    write requests sent on table stories
\*   fetches   calls of fetchStories made;  settled: of these, returned
\*   wrote     the write returned without error
\*   delAtStart  the ids already deleted when its fetchStories started
\*   from      toggleStatus: the currentStatus it was given
NewOp(kind, caller, id, input, from, status) ==
  [kind |-> kind, caller |-> caller,
   pc |-> IF kind = "fetch" THEN "read" ELSE "write",
   id |-> id, input |-> input, from |-> from, status |-> status,
   data |-> <<>>, outcome |-> "none",
   writes |-> IF kind = "fetch" THEN 0 ELSE 1,
   fetches |-> IF kind = "fetch" THEN 1 ELSE 0,
   settled |-> 0, wrote |-> FALSE, delAtStart |-> {}]

OpIds == DOMAIN ops

\* ids the backend has assigned and whose row a delete has removed
DeletedIds == {id \in 1..(nextId - 1) : \A s \in db : s.id # id}

FetchInFlight(op) == op.pc \in {"read", "profiles"}

\* a further call may start (bounds of the model)
CanStart ==
  /\ calls < MaxOps
  /\ Len(ops) < MaxInFlight

RemoveAt(s, i) == SubSeq(s, 1, i - 1) \o SubSeq(s, i + 1, Len(s))

\* what is remembered of a settled call
Summary(op) ==
  [kind |-> op.kind, caller |-> op.caller, pc |-> op.pc, outcome |-> op.outcome,
   writes |-> op.writes, fetches |-> op.fetches, settled |-> op.settled,
   wrote |-> op.wrote]

\* call i settles as op: it leaves ops and enters settledOps
Settle(i, op) ==
  /\ ops' = RemoveAt(ops, i)
  /\ settledOps' = settledOps \cup {Summary(op)}

\* variant of CallerDone: confirmDelete forgets the story but leaves the
\* dialog as it is
CallerDoneKeepsDialog(op, ok) ==
  CASE op.caller = "confirmDelete" ->
         /\ toast' = IF ok THEN "Story deleted successfully"
                          ELSE "Failed to delete story"
         /\ storyToDelete' = NoId
         /\ UNCHANGED deleteDialogOpen
    [] op.caller = "toggleStatus" ->
         /\ toast' = IF ~ok THEN "Failed to update story status"
                     ELSE IF op.status = "published"
                          THEN "Story published successfully"
                          ELSE "Story unpublished successfully"
         /\ UNCHANGED <<deleteDialogOpen, storyToDelete>>
    [] OTHER -> UNCHANGED <<toast, deleteDialogOpen, storyToDelete>>

\* the caller's code after `await mutator(...)`: confirmDelete (try / catch and
\* the two setters after it), toggleStatus (try / catch)
CallerDone(op, ok) ==
  CASE op.caller = "confirmDelete" ->
         /\ toast' = IF ok THEN "Story deleted successfully"
                          ELSE "Failed to delete story"
         /\ deleteDialogOpen' = FALSE
         /\ storyToDelete' = NoId
    [] op.caller = "toggleStatus" ->
         /\ toast' = IF ~ok THEN "Failed to update story status"
                     ELSE IF op.status = "published"
                          THEN "Story published successfully"
                          ELSE "Story unpublished successfully"
         /\ UNCHANGED <<deleteDialogOpen, storyToDelete>>
    [] OTHER -> UNCHANGED <<toast, deleteDialogOpen, storyToDelete>>

\* fetchStories up to its first await: setLoading(true), stories read sent
FetchIssued(op, deleted) ==
  [op EXCEPT !.pc = "read", !.fetches = @ + 1, !.delAtStart = deleted]

\* fetchStories returned; a mutator awaiting it returns too
FetchSettled(op, outcome) ==
  [op EXCEPT !.pc = "resolved", !.settled = @ + 1, !.outcome = outcome]

----------------------------------------------------------------------------
(* Initial state: the backend holds five stories, the view is constructed  *)
(* (useState initial values) and its effects have not run yet              *)

InitialRow(id, title, author, status, created) ==
  [id |-> id, title |-> title, description |-> "d0", genre |-> "g0",
   cover_image_url |-> Null, author_id |-> author, status |-> status,
   created_at |-> created]

ViewInit ==
  /\ searchQuery = <<>>
  /\ filterStatus = "all"
  /\ deleteDialogOpen = FALSE
  /\ storyToDelete = NoId
  /\ toast = "none"
  /\ confirms = 0
  /\ lastClicked = NoId

LibraryIdle ==
  /\ library = <<>>
  /\ reads = <<>>
  /\ sortBy = "recent"
  /\ searchTerm = <<>>
  /\ stats = getReadingStats(<<>>, <<>>)
  /\ showSignupPrompt = FALSE
  /\ libLoading = TRUE
  /\ navigated = "none"
  /\ href = "app"

\* the backend at the start: two published stories of the user, a draft and
\* an archived story of the user, a published story of another author
InitialTable ==
  { InitialRow(1, <<"A", "b">>, "u1", "published", 2),
    InitialRow(2, <<"b">>, "u1", "published", 1),
    InitialRow(3, <<"a">>, "u1", "draft", 3),
    InitialRow(4, <<"B">>, "u1", "archived", 4),
    InitialRow(5, <<"a", "b">>, "u2", "published", 5) }

Init ==
  /\ db = InitialTable
  /\ story_tags = {}
  /\ nextId = 6
  /\ stories = <<>>
  /\ loading = TRUE
  /\ error = Null
  /\ ops = <<>>
  /\ settledOps = {}
  /\ calls = 0
  /\ deleteCalls = 0
  /\ mounted = FALSE
  /\ mountError = FALSE
  /\ user = "u1"
  /\ visible = <<>>
  /\ ViewInit
  /\ LibraryIdle

----------------------------------------------------------------------------
(* useStories and ManageStories: mount *)

\* the two mount effects, in order: useStories' fetchStories(), then
\* ManageStories' fetchUserStories(), which the hook does not return
Mount ==
  /\ ~mounted
  /\ mounted' = TRUE
  /\ ops' = Append(ops, NewOp("fetch", "mount", NoId, NoInput, Null, Null))
  /\ calls' = calls + 1
  /\ loading' = TRUE
  /\ mountError' = ~FetchUserStoriesDefined
  /\ UNCHANGED <<backendVars, stories, error, settledOps, deleteCalls, user,
                 filterVars, dialogVars, toast, libraryVars>>

----------------------------------------------------------------------------
(* useStories: fetchStories *)

\* variant of StoriesFailed: fetchStories throws the error of its stories
\* read to a mutator awaiting it
StoriesFailedRethrows(i, o) ==
  /\ ops[i].pc = "read"
  /\ o # "ok"
  /\ error' = ErrorString(o, "Failed to fetch stories")
  /\ loading' = FALSE
  /\ Settle(i, [ops[i] EXCEPT !.pc = "rejected", !.settled = @ + 1,
                               !.outcome = "readFailed"])
  /\ CallerDone(ops[i], FALSE)
  /\ UNCHANGED <<backendVars, stories, mounted, mountError, user, filterVars,
                 historyVars, libraryVars>>

\* the stories read of call i returns an error: if (storiesError) throw
\* storiesError -> catch: setError; finally: setLoading(false).
\* fetchStories returns normally, and so does a mutator awaiting it.
StoriesFailed(i, o) ==
  /\ ops[i].pc = "read"
  /\ o # "ok"
  /\ error' = ErrorString(o, "Failed to fetch stories")
  /\ loading' = FALSE
  /\ Settle(i, FetchSettled(ops[i], "readFailed"))
  /\ CallerDone(ops[i], TRUE)
  /\ UNCHANGED <<backendVars, stories, mounted, mountError, user, filterVars,
                 historyVars, libraryVars>>

\* the stories read of call i returns the rows selected now; the profiles
\* read is sent
StoriesOk(i) ==
  /\ ops[i].pc = "read"
  /\ ops' = [ops EXCEPT ![i] =
               [@ EXCEPT !.pc = "profiles", !.data = SelectStories(db)]]
  /\ UNCHANGED <<backendVars, hookVars, settledOps, calls, deleteCalls,
                 mounted, mountError, user, filterVars, dialogVars, toast,
                 libraryVars>>

\* variant of ProfilesDone: an error of the profiles read is thrown like an
\* error of the stories read
ProfilesDoneFatal(i, o) ==
  /\ ops[i].pc = "profiles"
  /\ IF o = "ok"
     THEN /\ stories' = MergeProfiles(ops[i].data,
                 SelectProfiles({ops[i].data[k].author_id : k \in DOMAIN ops[i].data}))
          /\ UNCHANGED error
     ELSE /\ error' = ErrorString(o, "Failed to fetch stories")
          /\ UNCHANGED stories
  /\ loading' = FALSE
  /\ visible' = FilteredStories(stories', user, searchQuery, filterStatus)
  /\ Settle(i, FetchSettled(ops[i], "ok"))
  /\ CallerDone(ops[i], TRUE)
  /\ UNCHANGED <<backendVars, mounted, mountError, user, searchQuery,
                 filterStatus, historyVars, libraryVars>>

\* the profiles read returns (an error is only logged); merge, setStories,
\* finally: setLoading(false); the view re-renders filteredStories
ProfilesDone(i, o) ==
  /\ ops[i].pc = "profiles"
  /\ LET authorIds == {ops[i].data[k].author_id : k \in DOMAIN ops[i].data}
         profilesData == IF o = "ok" THEN SelectProfiles(authorIds) ELSE {}
     IN  stories' = MergeProfiles(ops[i].data, profilesData)
  /\ loading' = FALSE
  /\ visible' = FilteredStories(stories', user, searchQuery, filterStatus)
  /\ Settle(i, FetchSettled(ops[i], "ok"))
  /\ CallerDone(ops[i], TRUE)
  /\ UNCHANGED <<backendVars, error, mounted, mountError, user, searchQuery,
                 filterStatus, historyVars, libraryVars>>

----------------------------------------------------------------------------
(* useStories: createStory, updateStory, deleteStory *)

GenericMessage(kind) ==
  CASE kind = "create" -> "Failed to create story"
    [] kind = "update" -> "Failed to update story"
    [] kind = "delete" -> "Failed to delete story"

\* createStory(storyData) up to its first await: the insert is sent
CreateStory(storyData) ==
  /\ mounted
  /\ CanStart
  /\ ops' = Append(ops, NewOp("create", "direct", NoId, storyData, Null, "draft"))
  /\ calls' = calls + 1
  /\ UNCHANGED <<backendVars, hookVars, settledOps, deleteCalls, mounted,
                 mountError, user, filterVars, dialogVars, toast, libraryVars>>

\* variant of WriteFailed: the failed write is sent once more
WriteFailedRetry(i, o) ==
  /\ ops[i].pc = "write"
  /\ o # "ok"
  /\ IF ops[i].writes < 2
     THEN /\ ops' = [ops EXCEPT ![i] = [@ EXCEPT !.writes = @ + 1]]
          /\ UNCHANGED <<error, settledOps, toast, deleteDialogOpen,
                         storyToDelete>>
     ELSE /\ error' = ErrorString(o, GenericMessage(ops[i].kind))
          /\ Settle(i, [ops[i] EXCEPT !.pc = "rejected",
                                       !.outcome = "writeFailed"])
          /\ CallerDone(ops[i], FALSE)
  /\ UNCHANGED <<backendVars, stories, loading, mounted, mountError, user,
                 filterVars, historyVars, libraryVars>>

\* the write of call i returns an error: if (error) throw error ->
\* catch: setError(...); throw err -> the caller's catch
WriteFailed(i, o) ==
  /\ ops[i].pc = "write"
  /\ o # "ok"
  /\ error' = ErrorString(o, GenericMessage(ops[i].kind))
  /\ Settle(i, [ops[i] EXCEPT !.pc = "rejected", !.outcome = "writeFailed"])
  /\ CallerDone(ops[i], FALSE)
  /\ UNCHANGED <<backendVars, stories, loading, mounted, mountError, user,
                 filterVars, historyVars, libraryVars>>

\* the table after the write of call op is applied
AppliedWrite(op, table, newId) ==
  CASE op.kind = "create" -> table \cup {InsertedRow(op.input, newId)}
    [] op.kind = "update" -> UpdateRows(table, op.id, op.status)
    [] op.kind = "delete" -> DeleteRows(table, op.id)

\* variant of WriteOk: the mutator returns without `await fetchStories()`
WriteOkNoFetch(i) ==
  /\ ops[i].pc = "write"
  /\ db' = AppliedWrite(ops[i], db, nextId)
  /\ nextId' = IF ops[i].kind = "create" THEN nextId + 1 ELSE nextId
  /\ Settle(i, [ops[i] EXCEPT !.wrote = TRUE, !.outcome = "ok",
                               !.pc = "resolved"])
  /\ CallerDone(ops[i], TRUE)
  /\ UNCHANGED <<story_tags, hookVars, mounted, mountError, user, filterVars,
                 historyVars, libraryVars>>

\* the write of call i returns without error.  createStory with tags sends
\* the story_tags insert; otherwise `await fetchStories()` starts
WriteOk(i) ==
  /\ ops[i].pc = "write"
  /\ db' = AppliedWrite(ops[i], db, nextId)
  /\ nextId' = IF ops[i].kind = "create" THEN nextId + 1 ELSE nextId
  /\ LET op == [ops[i] EXCEPT !.wrote = TRUE, !.outcome = "ok",
                              !.id = IF @ = NoId THEN nextId ELSE @]
         deleted == {id \in 1..(nextId' - 1) : \A s \in db' : s.id # id}
     IN  IF op.kind = "create" /\ op.input.tags # <<>>
         THEN /\ ops' = [ops EXCEPT ![i] = [op EXCEPT !.pc = "tags"]]
              /\ UNCHANGED loading
         ELSE /\ ops' = [ops EXCEPT ![i] = FetchIssued(op, deleted)]
              /\ loading' = TRUE
  /\ UNCHANGED <<story_tags, stories, error, settledOps, calls, deleteCalls,
                 mounted, mountError, user, filterVars, dialogVars, toast,
                 libraryVars>>

\* await supabase.from('story_tags').insert(tagInserts): its result is not
\* inspected; then `await fetchStories()` starts
TagsDone(i, o) ==
  /\ ops[i].pc = "tags"
  /\ story_tags' = IF o = "ok"
                   THEN story_tags \cup TagInserts(ops[i].id, ops[i].input.tags)
                   ELSE story_tags
  /\ ops' = [ops EXCEPT ![i] = FetchIssued(@, DeletedIds)]
  /\ loading' = TRUE
  /\ UNCHANGED <<db, nextId, stories, error, settledOps, calls, deleteCalls,
                 mounted, mountError, user, filterVars, dialogVars, toast,
                 libraryVars>>

----------------------------------------------------------------------------
(* ManageStories: handlers *)

\* the story cards are rendered only when loading is false
Rendered == IF mounted /\ ~loading THEN visible ELSE <<>>

\* variant of handleDeleteClick: the click deletes without confirmation
HandleDeleteClickDeletes(k) ==
  /\ k \in DOMAIN Rendered
  /\ CanStart
  /\ storyToDelete' = Rendered[k].id
  /\ deleteDialogOpen' = TRUE
  /\ lastClicked' = Rendered[k].id
  /\ ops' = Append(ops, NewOp("delete", "confirmDelete", Rendered[k].id,
                              NoInput, Null, Null))
  /\ calls' = calls + 1
  /\ deleteCalls' = deleteCalls + 1
  /\ UNCHANGED <<backendVars, hookVars, settledOps, mounted, mountError, user,
                 filterVars, toast, confirms, libraryVars>>

\* handleDeleteClick(story.id) from a rendered card
HandleDeleteClick(k) ==
  /\ k \in DOMAIN Rendered
  /\ storyToDelete' = Rendered[k].id
  /\ deleteDialogOpen' = TRUE
  /\ lastClicked' = Rendered[k].id
  /\ UNCHANGED <<backendVars, hookVars, opVars, mounted, mountError, user,
                 filterVars, toast, confirms, libraryVars>>

\* AlertDialogCancel / dismissal: onOpenChange(false) = setDeleteDialogOpen(false)
CancelDelete ==
  /\ deleteDialogOpen
  /\ deleteDialogOpen' = FALSE
  /\ UNCHANGED <<backendVars, hookVars, opVars, mounted, mountError, user,
                 filterVars, storyToDelete, toast, confirms, lastClicked,
                 libraryVars>>

\* AlertDialogAction onClick={confirmDelete}, up to its await; the action
\* button also closes the dialog through onOpenChange(false)
ConfirmDelete ==
  /\ deleteDialogOpen
  /\ CanStart
  /\ confirms' = confirms + 1
  /\ IF storyToDelete = NoId
     THEN UNCHANGED <<ops, calls, deleteCalls>>
     ELSE /\ ops' = Append(ops, NewOp("delete", "confirmDelete", storyToDelete,
                                      NoInput, Null, Null))
          /\ calls' = calls + 1
          /\ deleteCalls' = deleteCalls + 1
  /\ deleteDialogOpen' = FALSE
  /\ UNCHANGED <<backendVars, hookVars, settledOps, mounted, mountError, user,
                 filterVars, storyToDelete, toast, lastClicked, libraryVars>>

\* toggleStatus(story.id, story.status) from a rendered card, up to its await
ToggleStatus(k) ==
  /\ k \in DOMAIN Rendered
  /\ CanStart
  /\ ops' = Append(ops, NewOp("update", "toggleStatus", Rendered[k].id, NoInput,
                              Rendered[k].status, NewStatus(Rendered[k].status)))
  /\ calls' = calls + 1
  /\ UNCHANGED <<backendVars, hookVars, settledOps, deleteCalls, mounted,
                 mountError, user, filterVars, dialogVars, toast, libraryVars>>

----------------------------------------------------------------------------
(* Specification of the hook and the ManageStories view *)

Next ==
  \/ Mount
  \/ \E i \in OpIds, o \in Outcomes : StoriesFailed(i, o)
  \/ \E i \in OpIds : StoriesOk(i)
  \/ \E i \in OpIds, o \in Outcomes : ProfilesDone(i, o)
  \/ \E storyData \in Inputs : CreateStory(storyData)
  \/ \E i \in OpIds, o \in Outcomes : WriteFailed(i, o)
  \/ \E i \in OpIds : WriteOk(i)
  \/ \E i \in OpIds, o \in Outcomes : TagsDone(i, o)
  \/ \E k \in 1..2 : HandleDeleteClick(k)
  \/ CancelDelete
  \/ ConfirmDelete
  \/ \E k \in 1..2 : ToggleStatus(k)

Spec == Init /\ [][Next]_vars

----------------------------------------------------------------------------
(* Specification of the ManageStories filters: the collection is any list  *)
(* of Story values of the Story type, newest first; the two inputs change  *)
(* and the view re-renders filteredStories                                 *)

StoryPool ==
  { InitialRow(1, <<"A", "b">>, "u1", "published", 5),
    InitialRow(2, <<"b", "a">>, "u1", "draft", 4),
    InitialRow(3, <<"a">>, "u1", "archived", 3),
    InitialRow(4, <<"B">>, "u1", "published", 2),
    InitialRow(5, <<"A", "b">>, "u2", "published", 1) }

QueryChars == {"a", "A", "b"}

Queries == UNION {[1..n -> QueryChars] : n \in 0..MaxQueryLen}

FilterValues == {"all", "published", "draft", "archived"}

HookIdle ==
  /\ db = {}
  /\ story_tags = {}
  /\ nextId = 1
  /\ loading = FALSE
  /\ error = Null
  /\ ops = <<>>
  /\ settledOps = {}
  /\ calls = 0
  /\ deleteCalls = 0
  /\ mounted = TRUE
  /\ mountError = ~FetchUserStoriesDefined

InitFilter ==
  /\ \E S \in SUBSET StoryPool :
        /\ Cardinality(S) <= MaxListLen
        /\ stories = MergeProfiles(OrderByCreatedDesc(S), ProfilesTable)
  /\ user \in {"u1", NoUser}
  /\ ViewInit
  /\ visible = FilteredStories(stories, user, searchQuery, filterStatus)
  /\ HookIdle
  /\ LibraryIdle

\* Input onChange={(e) => setSearchQuery(e.target.value)}
SetSearchQuery(q) ==
  /\ searchQuery' = q
  /\ visible' = FilteredStories(stories, user, q, filterStatus)
  /\ UNCHANGED <<backendVars, hookVars, opVars, mounted, mountError, user,
                 filterStatus, dialogVars, toast, libraryVars>>

\* Button onClick={() => setFilterStatus(status)}
SetFilterStatus(f) ==
  /\ filterStatus' = f
  /\ visible' = FilteredStories(stories, user, searchQuery, f)
  /\ UNCHANGED <<backendVars, hookVars, opVars, mounted, mountError, user,
                 searchQuery, dialogVars, toast, libraryVars>>

NextFilter ==
  \/ \E q \in Queries : SetSearchQuery(q)
  \/ \E f \in FilterValues : SetFilterStatus(f)

SpecFilter == InitFilter /\ [][NextFilter]_vars

----------------------------------------------------------------------------
(* Specification of the LibraryPage statistics: library and reads are any  *)
(* lists the two hooks can deliver; the sort order and the search term     *)
(* change and the page re-renders stats                                    *)

LibraryPool ==
  { [id |-> 1, story_id |-> "A", title |-> <<"a">>, created_at |-> 1],
    [id |-> 2, story_id |-> "B", title |-> <<"b">>, created_at |-> 2] }

ProgressValues == {NoProgress, 0, 45, 100, 150}

ReadPool == [story_id : {"A", "C"}, progress : ProgressValues]

SearchTerms == {<<>>, <<"a">>, <<"b">>}

DistinctStories(lib) ==
  \A i, j \in DOMAIN lib : lib[i].story_id = lib[j].story_id => i = j

InitStats ==
  /\ library \in UNION {[1..n -> LibraryPool] : n \in 0..MaxListLen}
  /\ DistinctStories(library)
  /\ reads \in UNION {[1..n -> ReadPool] : n \in 0..MaxListLen}
  /\ sortBy = "recent"
  /\ searchTerm = <<>>
  /\ stats = getReadingStats(library, reads)
  /\ showSignupPrompt = FALSE
  /\ libLoading = FALSE
  /\ navigated = "none"
  /\ href = "app"
  /\ stories = <<>>
  /\ visible = <<>>
  /\ user = "u1"
  /\ ViewInit
  /\ HookIdle

\* Button onClick={() => setSortBy(...)}
SetSortBy(order) ==
  /\ sortBy' = order
  /\ stats' = getReadingStats(library, reads)
  /\ UNCHANGED <<backendVars, hookVars, opVars, mounted, mountError, user,
                 filterVars, dialogVars, toast, library, reads, searchTerm,
                 promptVars>>

\* Input onChange={(e) => setSearchTerm(e.target.value)}
SetSearchTerm(term) ==
  /\ searchTerm' = term
  /\ stats' = getReadingStats(library, reads)
  /\ UNCHANGED <<backendVars, hookVars, opVars, mounted, mountError, user,
                 filterVars, dialogVars, toast, library, reads, sortBy,
                 promptVars>>

NextStats ==
  \/ \E order \in {"recent", "alphabetical"} : SetSortBy(order)
  \/ \E term \in SearchTerms : SetSearchTerm(term)

SpecStats == InitStats /\ [][NextStats]_vars

----------------------------------------------------------------------------
(* Specification of the LibraryPage sign-up prompt: the page mounts while  *)
(* the library loads, with or without a user; the load settles, the user   *)
(* context changes, and the prompt is dismissed or answered                *)

\* variant of SignupEffect: the prompt is opened whoever is present
SignupEffectAnyUser(u, l, show) ==
  IF ~l THEN TRUE ELSE show

\* useEffect(() => { if (!user && !loading) setShowSignupPrompt(true) },
\* [user, loading]): the value of showSignupPrompt after the effect has run
SignupEffect(u, l, show) ==
  IF u = NoUser /\ ~l THEN TRUE ELSE show

InitLibrary ==
  /\ user \in {"u1", NoUser}
  /\ LibraryIdle
  /\ stories = <<>>
  /\ visible = <<>>
  /\ ViewInit
  /\ HookIdle

\* useLibrary and useReads deliver their lists and loading becomes false; the
\* page re-renders stats and, loading having changed, runs the effect
LibraryLoaded(lib, rds) ==
  /\ libLoading
  /\ libLoading' = FALSE
  /\ library' = lib
  /\ reads' = rds
  /\ stats' = getReadingStats(lib, rds)
  /\ showSignupPrompt' = SignupEffect(user, FALSE, showSignupPrompt)
  /\ UNCHANGED <<backendVars, hookVars, opVars, mounted, mountError, user,
                 filterVars, dialogVars, toast, sortBy, searchTerm, navigated,
                 href>>

\* the user context delivers another user (sign-in or sign-out); user having
\* changed, the page runs the effect
UserChanged(u) ==
  /\ u # user
  /\ user' = u
  /\ showSignupPrompt' = SignupEffect(u, libLoading, showSignupPrompt)
  /\ UNCHANGED <<backendVars, hookVars, opVars, mounted, mountError,
                 filterVars, dialogVars, toast, library, reads, sortBy,
                 searchTerm, stats, libLoading, navigated, href>>

\* onOpenChange(false) of the open prompt: setShowSignupPrompt(open);
\* if (!open && !user) onNavigate("discover")
DismissPrompt ==
  /\ showSignupPrompt
  /\ showSignupPrompt' = FALSE
  /\ navigated' = IF user = NoUser THEN "discover" ELSE navigated
  /\ UNCHANGED <<backendVars, hookVars, opVars, mounted, mountError, user,
                 filterVars, dialogVars, toast, library, reads, sortBy,
                 searchTerm, stats, libLoading, href>>

\* onSignup of the open prompt: handleSignup
HandleSignup ==
  /\ showSignupPrompt
  /\ showSignupPrompt' = FALSE
  /\ href' = "/"
  /\ UNCHANGED <<backendVars, hookVars, opVars, mounted, mountError, user,
                 filterVars, dialogVars, toast, library, reads, sortBy,
                 searchTerm, stats, libLoading, navigated>>

\* what the two hooks can deliver for user u: nothing without a user
Deliverable(u) ==
  IF u = NoUser
  THEN {<<>>} \X {<<>>}
  ELSE {lib \in UNION {[1..n -> LibraryPool] : n \in 0..MaxListLen} :
          DistinctStories(lib)}
       \X UNION {[1..n -> ReadPool] : n \in 0..MaxListLen}

NextLibrary ==
  \/ /\ libLoading
     /\ \E d \in Deliverable(user) : LibraryLoaded(d[1], d[2])
  \/ \E u \in {"u1", NoUser} : UserChanged(u)
  \/ DismissPrompt
  \/ HandleSignup

SpecLibrary == InitLibrary /\ [][NextLibrary]_vars

----------------------------------------------------------------------------
(* Properties of the hook and the ManageStories view *)

Mutators == {"create", "update", "delete"}

\* call i settles in this step
Settles(i) ==
  /\ i \in OpIds
  /\ Len(ops') < Len(ops)
  /\ ops' = RemoveAt(ops, i)

\* C1: a mutator (createStory, updateStory, deleteStory) whose write returned
\* without error calls fetchStories only after that write returned, exactly
\* once, and resolves only after that fetchStories has returned.
C1_RefetchBeforeResolve ==
  /\ \A r \in settledOps :
        r.kind \in Mutators /\ r.pc = "resolved"
          => r.wrote /\ r.writes = 1 /\ r.fetches = 1 /\ r.settled = 1
  /\ \A i \in OpIds :
        ops[i].kind \in Mutators
          => /\ ops[i].fetches > 0 => ops[i].wrote
             /\ ops[i].wrote => ops[i].pc \in {"tags", "read", "profiles"}
             /\ ops[i].pc \in {"read", "profiles"}
                  => ops[i].fetches = 1 /\ ops[i].settled = 0
             /\ ops[i].pc \in {"write", "tags"} => ops[i].fetches = 0

\* a mutator has resolved, after the fetchStories it awaited returned
C1_Witness ==
  \E r \in settledOps :
    r.kind \in Mutators /\ r.pc = "resolved" /\ r.settled = 1

\* C3: a mutator whose write returns an error has sent that write once, calls
\* no fetchStories, leaves stories (and the backend) as they are, sets error to
\* a string and rejects; the ManageStories caller then shows its failure
\* notification.
C3_WriteErrorIsTerminal ==
  /\ [](\A r \in settledOps :
          r.pc = "rejected"
            => r.writes = 1 /\ r.fetches = 0 /\ ~r.wrote /\ error # Null)
  /\ [][\A i \in OpIds :
          Settles(i) /\ ops[i].pc = "write"
            => /\ stories' = stories
               /\ db' = db
               /\ loading' = loading
               /\ error' \in {BackendMessage, GenericMessage(ops[i].kind)}
               /\ \E r \in settledOps' : r.pc = "rejected" /\ r.kind = ops[i].kind
               /\ ops[i].caller = "confirmDelete"
                    => toast' = "Failed to delete story"
               /\ ops[i].caller = "toggleStatus"
                    => toast' = "Failed to update story status"]_vars

\* a delete confirmed in the dialog was rejected and the failure is shown
C3_Witness ==
  /\ \E r \in settledOps : r.pc = "rejected" /\ r.caller = "confirmDelete"
  /\ toast = "Failed to delete story"
  /\ error = "Failed to delete story"
  /\ stories # <<>>

\* C4: delete-clicks and cancels call no deleteStory; each confirm calls
\* deleteStory once, which sends one delete; so the deletes sent never exceed
\* the confirms.
C4_DeleteOnlyOnConfirm ==
  /\ [](/\ deleteCalls = confirms
        /\ \A i \in OpIds : ops[i].kind = "delete" => ops[i].writes = 1
        /\ \A r \in settledOps : r.kind = "delete" => r.writes = 1
        /\ Cardinality({i \in OpIds : ops[i].kind = "delete"}) <= confirms)
  /\ [][deleteCalls' # deleteCalls
          => /\ deleteDialogOpen
             /\ deleteCalls' = deleteCalls + 1
             /\ confirms' = confirms + 1]_vars

\* after one confirmed delete the dialog was opened again and not confirmed
C4_Witness ==
  /\ confirms = 1
  /\ deleteCalls = 1
  /\ deleteDialogOpen
  /\ storyToDelete # NoId

\* a story of the in-memory collection as a row of table stories
AsRow(story) ==
  [id |-> story.id, title |-> story.title, description |-> story.description,
   genre |-> story.genre, cover_image_url |-> story.cover_image_url,
   author_id |-> story.author_id, status |-> story.status,
   created_at |-> story.created_at]

MemoryRows == {AsRow(stories[k]) : k \in DOMAIN stories}

NoFailureSoFar == \A r \in settledOps : r.outcome = "ok"

\* C2: once a mutation has resolved and no call of the hook is in flight, the
\* in-memory collection is the set of rows the fetch selects from the backend
\* (stated here for the behaviours in which no backend call failed).
C2_ConvergesToBackend ==
  ( /\ \E r \in settledOps : r.kind \in Mutators /\ r.pc = "resolved"
    /\ ops = <<>>
    /\ NoFailureSoFar )
  => MemoryRows = SeqToSet(SelectStories(db))

\* C5: when createStory(input) resolves, the collection its re-fetch produced
\* holds an entity with the backend-assigned id whose title, description,
\* genre, author_id and cover image are those of the input.
C5_CreatedStoryIsFetched ==
  [][\A i \in OpIds :
       ( /\ Settles(i)
         /\ ops[i].kind = "create"
         /\ ops[i].pc = "profiles" )
       => \E k \in DOMAIN stories' :
            /\ stories'[k].id = ops[i].id
            /\ stories'[k].title = ops[i].input.title
            /\ stories'[k].description = ops[i].input.description
            /\ stories'[k].genre = ops[i].input.genre
            /\ stories'[k].author_id = ops[i].input.author_id
            /\ stories'[k].cover_image_url = ops[i].input.cover_image_url]_vars

\* C6: when toggleStatus resolves after its update and re-fetch (no other call
\* of the hook in flight, no backend call failed, the story still in the
\* backend), the in-memory collection holds that story with status draft if it
\* was published and published if it was draft; the status written is always
\* draft or published.
C6_ToggleRoundTrip ==
  /\ [](\A i \in OpIds :
          ops[i].caller = "toggleStatus" => ops[i].status \in {"draft", "published"})
  /\ [][\A i \in OpIds :
          ( /\ Settles(i)
            /\ ops[i].caller = "toggleStatus"
            /\ ops[i].pc = "profiles"
            /\ Len(ops) = 1
            /\ NoFailureSoFar
            /\ \E s \in db : s.id = ops[i].id
            /\ ops[i].from \in {"published", "draft"} )
          => \E k \in DOMAIN stories' :
               /\ stories'[k].id = ops[i].id
               /\ stories'[k].status = NewStatus(ops[i].from)]_vars

\* C7: after ManageStories has mounted with a user and the loading of the
\* mount has settled without failure, the user's stories the view renders from
\* are all the rows of that user in the backend, drafts and archived included.
C7_MountLoadsAllUserStories ==
  ( /\ mounted
    /\ user # NoUser
    /\ calls = 1
    /\ ops = <<>>
    /\ ~loading
    /\ NoFailureSoFar )
  => {AsRow(UserStories(stories, user)[k]) :
        k \in DOMAIN UserStories(stories, user)}
     = {s \in db : s.author_id = user}

\* C8: a fetchStories started after a delete of id returned successfully never
\* returns a row with that id; and once deleteStory(id) has resolved and every
\* fetchStories still in flight started after that delete, the in-memory
\* collection holds no story with that id (stated here for the behaviours in
\* which no backend call failed).
C8_DeletedStoryIsGone ==
  /\ \A i \in OpIds :
        ops[i].pc = "profiles"
          => \A k \in DOMAIN ops[i].data : ops[i].data[k].id \notin ops[i].delAtStart
  /\ \A id \in DeletedIds :
        ( /\ \A i \in OpIds : ops[i].kind = "delete" => ops[i].id # id
          /\ \A i \in OpIds : FetchInFlight(ops[i]) => id \in ops[i].delAtStart
          /\ NoFailureSoFar )
        => \A k \in DOMAIN stories : stories[k].id # id

\* C11: when a fetchStories settles, error reflects that fetch: null if the
\* fetch succeeded (whatever an earlier failed fetch or mutation recorded), a
\* string message if its stories read failed.
C11_FetchSetsOrClearsError ==
  [][\A i \in OpIds :
       (Settles(i) /\ FetchInFlight(ops[i]))
       => IF ops[i].pc = "profiles"
          THEN error' = Null
          ELSE error' \in {BackendMessage, "Failed to fetch stories"}]_vars

\* C12: once the hook is mounted, loading is true exactly while at least one
\* fetchStories is in flight, overlapping fetches included.
C12_LoadingBracketsFetches ==
  mounted => (loading <=> \E i \in OpIds : FetchInFlight(ops[i]))

\* the profile row of the story's author, if the table has one
AuthorProfile(story) ==
  IF \E p \in ProfilesTable : p.user_id = story.author_id
  THEN CHOOSE p \in ProfilesTable : p.user_id = story.author_id
  ELSE NullProfile

\* C13: when the profiles read of a fetchStories returns, the collection is
\* replaced by the rows the stories read returned, in their order; after an
\* error of the profiles read every story has a null profile, and after a
\* success every story has the profile whose user_id is its author_id, or null
\* if there is none; error is left as it was and loading becomes false.
C13_ProfilesFailureNonFatal ==
  [][\A i \in OpIds :
       (ops[i].pc = "profiles" /\ Settles(i))
       => \A o \in Outcomes :
            ProfilesDone(i, o)
            => /\ Len(stories') = Len(ops[i].data)
               /\ \A k \in DOMAIN stories' :
                    /\ AsRow(stories'[k]) = ops[i].data[k]
                    /\ stories'[k].profiles =
                         IF o = "ok" THEN AuthorProfile(ops[i].data[k])
                                     ELSE NullProfile
               /\ error' = error
               /\ loading' = FALSE]_vars

\* a fetch whose profiles read failed has settled: a story of u1, who has a
\* profile row, is in the collection without profile, error is null
C13_Witness ==
  /\ ~loading
  /\ error = Null
  /\ \E k \in DOMAIN stories :
       stories[k].author_id = "u1" /\ stories[k].profiles = NullProfile

\* C14: in LibraryPage, whenever user or loading changes and leaves no user
\* with the library load settled, the sign-up prompt is open afterwards; the
\* prompt only goes from closed to open with no user present and the load
\* settled; dismissing the prompt with no user present closes it and navigates
\* to "discover"; choosing sign-up closes it, sets the location to "/" and
\* navigates nowhere.
C14_SignupPrompt ==
  [][/\ ((user' # user \/ libLoading' # libLoading)
          /\ user' = NoUser /\ ~libLoading') => showSignupPrompt'
     /\ (~showSignupPrompt /\ showSignupPrompt')
          => (user' = NoUser /\ ~libLoading')
     /\ (DismissPrompt /\ user = NoUser)
          => (~showSignupPrompt' /\ navigated' = "discover")
     /\ HandleSignup
          => (~showSignupPrompt' /\ navigated' = navigated /\ href' = "/")]_vars

\* the prompt was opened for a missing user after the load and was dismissed
C14_Witness ==
  /\ user = NoUser
  /\ ~libLoading
  /\ ~showSignupPrompt
  /\ navigated = "discover"
  /\ href = "app"

\* C15: a mutator rejects exactly when its write on table stories returned an
\* error.  A mutator that settles while its re-fetch is in flight (the stories
\* read failed, or the profiles read returned with either outcome) wrote
\* successfully and resolves, and its ManageStories caller shows the success
\* notification; when it was the stories read that failed, stories are left
\* as before the mutation and error is set.  The story_tags insert of
\* createStory, with either outcome, only leads on to the re-fetch.
C15_RejectsOnlyOnWriteError ==
  /\ [](\A r \in settledOps :
          r.kind \in Mutators
            => /\ r.pc \in {"resolved", "rejected"}
               /\ r.pc = "rejected" <=> ~r.wrote
               /\ r.outcome = "readFailed" => r.pc = "resolved")
  /\ [][\A i \in OpIds :
          (ops[i].kind \in Mutators /\ FetchInFlight(ops[i]) /\ Settles(i))
            => /\ ops[i].wrote
               /\ \E r \in settledOps' :
                    /\ r.kind = ops[i].kind /\ r.caller = ops[i].caller
                    /\ r.pc = "resolved" /\ r.wrote
                    /\ ops[i].pc = "read" => r.outcome = "readFailed"
               /\ ops[i].caller = "confirmDelete"
                    => toast' = "Story deleted successfully"
               /\ ops[i].caller = "toggleStatus"
                    => toast' \in {"Story published successfully",
                                   "Story unpublished successfully"}
               /\ ops[i].pc = "read"
                    => stories' = stories /\ error' # Null]_vars
  /\ [][\A i \in OpIds :
          (ops[i].pc = "tags" /\ ops' # ops)
            => \A o \in Outcomes :
                 TagsDone(i, o)
                 => /\ ops'[i].pc = "read"
                    /\ error' = error
                    /\ settledOps' = settledOps]_vars

\* a confirmed delete resolved although its re-fetch failed: the caller showed
\* success, error is set and the deleted story is still in the collection
C15_Witness ==
  /\ \E r \in settledOps :
       /\ r.caller = "confirmDelete"
       /\ r.pc = "resolved"
       /\ r.outcome = "readFailed"
  /\ toast = "Story deleted successfully"
  /\ error # Null
  /\ \E k \in DOMAIN stories : stories[k].id \in DeletedIds

\* C16: whenever the confirmation dialog is open, storyToDelete is set, to
\* the id of the latest delete-click; and every deleteStory call that
\* confirmDelete starts targets the id of the latest delete-click, whatever
\* clicks, cancels, confirms and delete completions came before.
C16_DeleteTargetsLastClick ==
  /\ [](deleteDialogOpen
          => storyToDelete # NoId /\ storyToDelete = lastClicked)
  /\ [][deleteCalls' # deleteCalls
          => /\ Len(ops') = Len(ops) + 1
             /\ ops'[Len(ops')].kind = "delete"
             /\ ops'[Len(ops')].id # NoId
             /\ ops'[Len(ops')].id = lastClicked
             /\ lastClicked' = lastClicked]_vars

\* while the delete of an earlier click is in flight, the dialog is open for
\* another story
C16_Witness ==
  /\ deleteDialogOpen
  /\ \E i \in OpIds :
       /\ ops[i].kind = "delete"
       /\ ops[i].id # storyToDelete

----------------------------------------------------------------------------
(* Properties of the ManageStories filters *)

\* the two letters are equal up to case
SameLetter(c, d) == c = d \/ {c, d} \in {{"a", "A"}, {"b", "B"}}

\* sub occurs in str at some offset, letters compared up to case
ContainsIgnoringCase(str, sub) ==
  \E off \in 0..Len(str) :
    /\ off + Len(sub) <= Len(str)
    /\ \A j \in 1..Len(sub) : SameLetter(str[off + j], sub[j])

ShouldBeVisible(story) ==
  /\ story.author_id = user
  /\ ContainsIgnoringCase(story.title, searchQuery)
  /\ filterStatus # "all" => story.status = filterStatus

\* C9: the visible list is exactly the stories of the collection that belong
\* to the current user, whose title contains the search string up to case, and
\* whose status is the status filter unless that is "all"; it keeps their
\* order; with an empty search string and filter "all" it is all of the
\* user's stories.
C9_FilteredStoriesExact ==
  /\ SeqToSet(visible) = {stories[k] : k \in {j \in DOMAIN stories : ShouldBeVisible(stories[j])}}
  /\ Len(visible) = Cardinality({j \in DOMAIN stories : ShouldBeVisible(stories[j])})
  /\ \A a, b \in DOMAIN visible : a < b => visible[a].created_at > visible[b].created_at
  /\ (searchQuery = <<>> /\ filterStatus = "all")
       => SeqToSet(visible) = {stories[k] : k \in {j \in DOMAIN stories : stories[j].author_id = user}}

\* the search "a" with filter "published" shows the story titled "Ab" and
\* hides another story of the user
C9_Witness ==
  /\ searchQuery = <<"a">>
  /\ filterStatus = "published"
  /\ Len(visible) = 1
  /\ visible[1].title = <<"A", "b">>
  /\ Len(UserStories(stories, user)) = 2

----------------------------------------------------------------------------
(* Properties of the LibraryPage statistics *)

ProgressAt(i) == IF reads[i].progress = NoProgress THEN 0 ELSE reads[i].progress

RECURSIVE SumOver(_)
SumOver(S) ==
  IF S = {} THEN 0
  ELSE LET i == CHOOSE j \in S : TRUE IN ProgressAt(i) + SumOver(S \ {i})

\* C10: totalSaved is the number of library items, currentlyReading the number
\* of reads with 0 < progress < 100, completed the number of reads with
\* progress >= 100, totalSlides the sum of progress (missing counts 0); no read
\* is in both counts; the library does not restrict the reads counted; the
\* search term and the sort order play no part; library [A], reads [A at 45]
\* gives 1, 1, 0, 45.
C10_ReadingStats ==
  /\ stats.totalSaved = Len(library)
  /\ stats.currentlyReading =
       Cardinality({i \in DOMAIN reads : ProgressAt(i) > 0 /\ ProgressAt(i) < 100})
  /\ stats.completed = Cardinality({i \in DOMAIN reads : ProgressAt(i) >= 100})
  /\ stats.totalSlides = SumOver(DOMAIN reads)
  /\ stats.currentlyReading + stats.completed <= Len(reads)
  /\ ( /\ Len(library) = 1 /\ library[1].story_id = "A"
       /\ reads = <<[story_id |-> "A", progress |-> 45]>> )
     => stats = [totalSaved |-> 1, currentlyReading |-> 1, completed |-> 0,
                 totalSlides |-> 45]

\* library [A], reads [A at 45], after a search that hides A and a change of
\* the sort order
C10_Witness ==
  /\ Len(library) = 1
  /\ library[1].story_id = "A"
  /\ reads = <<[story_id |-> "A", progress |-> 45]>>
  /\ searchTerm = <<"b">>
  /\ sortBy = "alphabetical"
  /\ stats.totalSlides = 45

====
